---- MODULE Spec2Model ----
(***************************************************************************)
(* The authentication subsystem of the flask_tutorial backend:            *)
(* app/services/auth_service.py (AuthService), app/utils/jwt_utils.py     *)
(* (token codec), app/utils/auth_decorator.py (require_auth) and the      *)
(* handlers of app/api/v1/auth.py, over a Redis session store and the     *)
(* SQL user table.  Request handlers run concurrently; every Redis        *)
(* command and every database statement is one atomic step.               *)
(***************************************************************************)
EXTENDS Integers, Sequences, FiniteSets, TLC

VARIABLES
  now,      \* the clock, in seconds
  users,    \* the rows of the user table
  nextId,   \* the next primary key
  store,    \* the entries of the session store
  storeUp,  \* whether the session store answers
  issued,   \* the tokens handed to clients so far
  pc,       \* the statement each worker is at
  req,      \* the request each worker is handling
  ret,      \* the response delivered by the last step, if any
  nops,     \* the number of requests taken so far
  live,     \* history: access tokens of the logins since whose start
            \* logout_user has not run for the user
  epoch,    \* history: the store when the running requests began
  loggedOut, \* history: the users logout_user has been called for
  environ,  \* the environment variables of the server process
  revoked   \* history: the tokens successful logouts have revoked

vars ==
  <<now, users, nextId, store, storeUp, issued, pc, req, ret, nops, live,
    epoch, loggedOut, environ, revoked>>

----------------------------------------------------------------------------
(* Bounds of the model *)

MaxOps == 5
TickStep == 900
MaxTime == 1800

Procs == {1, 2}
Usernames == {"alice", "bob"}
Passwords == {"secret1", "wrong-pw"}

\* the registration requests clients send: the third collides with the first
\* on the username and with the second on the email
RegRequests ==
  {[username |-> "alice", email |-> "a@x.com", password |-> "secret1",
    role |-> "user"],
   [username |-> "bob", email |-> "b@x.com", password |-> "secret1",
    role |-> "admin"],
   [username |-> "alice", email |-> "b@x.com", password |-> "secret1",
    role |-> "admin"]}

----------------------------------------------------------------------------
(* Program constants *)

SESSION_TTL == 1800
JWT_ACCESS_TOKEN_EXPIRE_MINUTES == 30
JWT_REFRESH_TOKEN_EXPIRE_DAYS == 7
PrefixLen == 16

JWT_SECRET_KEY == "server-secret"
JWT_ALGORITHM == "HS256"

----------------------------------------------------------------------------
(* Token codec (app/utils/jwt_utils.py) *)

\* base64url of the JOSE header {"alg":"HS256","typ":"JWT"}: the first
\* dot-separated segment of every token jwt.encode produces with HS256.
HeaderSegment ==
  << "e","y","J","h","b","G","c","i","O","i","J","I","U","z","I","1",
     "N","i","I","s","I","n","R","5","c","C","I","6","I","k","p","X",
     "V","C","J","9" >>

DigitChars == <<"0","1","2","3","4","5","6","7","8","9">>

RECURSIVE Digits(_)
\* str(n) for a non-negative integer, as a sequence of characters
Digits(n) ==
  IF n < 10 THEN <<DigitChars[n + 1]>>
  ELSE Digits(n \div 10) \o <<DigitChars[(n % 10) + 1]>>

NoToken ==
  [user_id |-> 0, username |-> "", role |-> "", type |-> "none",
   iat |-> 0, exp |-> 0, sig |-> ""]

NoPayload ==
  [user_id |-> 0, username |-> "", role |-> "", type |-> "none",
   iat |-> 0, exp |-> 0]

\* bug: the access token is typed as a refresh token
generate_access_tokenAsRefresh(user_id, username, role, t) ==
  [user_id |-> user_id, username |-> username, role |-> role,
   type |-> "refresh", iat |-> t,
   exp |-> t + JWT_ACCESS_TOKEN_EXPIRE_MINUTES * 60,
   sig |-> JWT_SECRET_KEY]

\* A token is the claims plus the key its signature was made with.
generate_access_token(user_id, username, role, t) ==
  [user_id |-> user_id, username |-> username, role |-> role,
   type |-> "access", iat |-> t,
   exp |-> t + JWT_ACCESS_TOKEN_EXPIRE_MINUTES * 60,
   sig |-> JWT_SECRET_KEY]

generate_refresh_token(user_id, username, role, t) ==
  [user_id |-> user_id, username |-> username, role |-> role,
   type |-> "refresh", iat |-> t,
   exp |-> t + JWT_REFRESH_TOKEN_EXPIRE_DAYS * 86400,
   sig |-> JWT_SECRET_KEY]

\* The wire form header.payload.signature; payload and signature are kept
\* as whole chunks, the header character by character.
TokenString(tok) ==
  HeaderSegment \o <<".">>
    \o Digits(tok.user_id) \o <<tok.username, tok.role, tok.type>>
    \o Digits(tok.iat) \o Digits(tok.exp)
    \o <<".", tok.sig>>

\* token[:16]
TokenPrefix(tok) == SubSeq(TokenString(tok), 1, PrefixLen)

Claims(tok) ==
  [user_id |-> tok.user_id, username |-> tok.username, role |-> tok.role,
   type |-> tok.type, iat |-> tok.iat, exp |-> tok.exp]

\* bug: the signature is not verified
decode_tokenUnverified(tok, t) ==
  IF tok.exp > t THEN Claims(tok) ELSE NoPayload

\* bug: an expired token is answered with a result of its own
decode_tokenExpiryTold(tok, t) ==
  IF tok.sig # JWT_SECRET_KEY THEN NoPayload
  ELSE IF tok.exp > t THEN Claims(tok)
  ELSE [NoPayload EXCEPT !.type = "expired"]

\* jwt.decode: the signature must verify and exp must lie in the future;
\* both failures are answered None.
decode_token(tok, t) ==
  IF tok.sig = JWT_SECRET_KEY /\ tok.exp > t THEN Claims(tok) ELSE NoPayload

\* tokens that were not signed with the server secret
Forged ==
  {[user_id |-> 1, username |-> "alice", role |-> "admin", type |-> "access",
    iat |-> 0, exp |-> JWT_ACCESS_TOKEN_EXPIRE_MINUTES * 60,
    sig |-> "other-secret"]}

\* the tokens a client can present
Tokens == issued \cup Forged

\* jwt.decode reading the wire form back: a string that is the wire form of
\* no token ever signed does not verify
ParseToken(s) ==
  IF \E tok \in Tokens : TokenString(tok) = s
  THEN CHOOSE tok \in Tokens : TokenString(tok) = s
  ELSE NoToken

----------------------------------------------------------------------------
(* The Authorization header (get_token_from_header) *)

\* a header is the sequence of its words and spaces; the words of a token
\* are the chunks of its wire form
Schemes == {"Bearer", "BEARER", "Basic"}

\* str.lower on the scheme words clients send
Lower(w) ==
  CASE w = "Bearer" -> "bearer"
    [] w = "BEARER" -> "bearer"
    [] w = "Basic" -> "basic"
    [] OTHER -> w

LowerAll(ws) == [i \in DOMAIN ws |-> Lower(ws[i])]

\* the place of the first space of h, 0 when it has none
FirstSpace(h) ==
  IF \E i \in DOMAIN h : h[i] = " "
  THEN CHOOSE i \in DOMAIN h : h[i] = " " /\ \A j \in 1..(i - 1) : h[j] # " "
  ELSE 0

\* bug: the scheme is not compared
get_token_from_headerAnyScheme(h) ==
  IF FirstSpace(h) = 0 THEN <<>> ELSE SubSeq(h, FirstSpace(h) + 1, Len(h))

\* bug: the scheme is compared without lower()
get_token_from_headerCaseSensitive(h) ==
  IF h = <<>> THEN <<>>
  ELSE IF FirstSpace(h) = 0 THEN <<>>
  ELSE IF SubSeq(h, 1, FirstSpace(h) - 1) # <<"Bearer">> THEN <<>>
  ELSE SubSeq(h, FirstSpace(h) + 1, Len(h))

\* the token of 'Bearer <token>'; None (here the empty string, which the
\* callers treat alike) for a missing header, a header without a space and
\* a scheme that is not bearer in any casing
get_token_from_header(h) ==
  IF h = <<>> THEN <<>>
  ELSE IF FirstSpace(h) = 0 THEN <<>>
  ELSE IF LowerAll(SubSeq(h, 1, FirstSpace(h) - 1)) # <<"bearer">> THEN <<>>
  ELSE SubSeq(h, FirstSpace(h) + 1, Len(h))

\* the headers clients send: none, a scheme alone, a scheme and a space, a
\* string that is no token, every token as a bearer token and every access
\* token under the other schemes
Headers ==
  {<<>>, <<"Bearer">>, <<"Bearer", " ">>, <<"Bearer", " ", "invalid.token">>}
    \cup {<<"Bearer", " ">> \o TokenString(tok) : tok \in Tokens}
    \cup {<<sch, " ">> \o TokenString(tok) :
            sch \in Schemes, tok \in {t \in issued : t.type = "access"}}

----------------------------------------------------------------------------
(* Session store (Redis): a set of entries, at most one per key *)

\* bug: the pattern ends with the id, without the colon after it
SessionPatternOpen(user_id) == <<"session", ":">> \o Digits(user_id)

SessionPattern(user_id) == <<"session", ":">> \o Digits(user_id) \o <<":">>

SessionKey(user_id, tok) == SessionPattern(user_id) \o TokenPrefix(tok)

SessionDataKey(user_id) == <<"session_data", ":">> \o Digits(user_id)

\* bug: the blacklist key holds the whole token
BlacklistKeyWhole(tok) == <<"blacklist", ":">> \o TokenString(tok)

BlacklistKey(tok) == <<"blacklist", ":">> \o TokenPrefix(tok)

\* SETEX key ttl value
Setex(s, key, ttl, val, t) ==
  {e \in s : e.key # key} \cup {[key |-> key, val |-> val, exp |-> t + ttl]}

\* DEL key
Delete(s, key) == {e \in s : e.key # key}

\* EXISTS key
Exists(s, key) == \E e \in s : e.key = key

\* KEYS prefix*
Keys(s, prefix) ==
  {e.key : e \in {x \in s : /\ Len(x.key) >= Len(prefix)
                            /\ SubSeq(x.key, 1, Len(prefix)) = prefix}}

\* Redis drops a key once its time to live has elapsed.
Expire(s, t) == {e \in s : e.exp > t}

----------------------------------------------------------------------------
(* User table (app/models/user.py) and password hashing *)

NoUser ==
  [id |-> 0, username |-> "", email |-> "", password_hash |-> <<>>,
   role |-> ""]

hash_password(password) == <<"bcrypt", password>>

\* bug: every password verifies against every hash
verify_passwordAny(plain, hashed) == TRUE

verify_password(plain, hashed) == hashed = <<"bcrypt", plain>>

\* User.query.filter((username == u) | (email == e)).first()
ExistingUser(us, username, email) ==
  \E u \in us : u.username = username \/ u.email = email

\* User.query.filter_by(username=u).first()
UserByName(us, username) ==
  IF \E u \in us : u.username = username
  THEN CHOOSE u \in us : u.username = username
  ELSE NoUser

\* bug: a row that is gone is still found
UserByIdAny(us, id) ==
  IF \E u \in us : u.id = id THEN CHOOSE u \in us : u.id = id
  ELSE [NoUser EXCEPT !.id = id, !.role = "user"]

\* User.query.get(id)
UserById(us, id) ==
  IF \E u \in us : u.id = id THEN CHOOSE u \in us : u.id = id ELSE NoUser

\* bug: the table has no unique constraints
UniqueViolationNever(us, username, email) == FALSE

\* the unique constraints on user.username and user.email
UniqueViolation(us, username, email) ==
  \E u \in us : u.username = username \/ u.email = email

\* bug: a row without a password hash is let in
authenticate_userNoHashCheck(us, username, password) ==
  LET user == UserByName(us, username) IN
  IF user = NoUser THEN NoUser
  ELSE IF user.password_hash = <<>> THEN user
  ELSE IF ~verify_password(password, user.password_hash) THEN NoUser
  ELSE user

authenticate_user(us, username, password) ==
  LET user == UserByName(us, username) IN
  IF user = NoUser THEN NoUser
  ELSE IF user.password_hash = <<>> THEN NoUser
  ELSE IF ~verify_password(password, user.password_hash) THEN NoUser
  ELSE user

----------------------------------------------------------------------------
(* Requests *)

NoReq ==
  [op |-> "none", token |-> NoToken, user |-> NoUser, payload |-> NoPayload,
   keys |-> {}, status |-> 0, error |-> "", access |-> NoToken,
   refresh |-> NoToken, raised |-> FALSE, header |-> <<>>, calls |-> <<>>,
   username |-> "", password |-> ""]

NoEpoch == [s0 |-> {}, clean |-> FALSE, done |-> <<>>]

\* the environment of a deployment that sets JWT_SECRET_KEY
Configured == [v \in {"JWT_SECRET_KEY"} |-> JWT_SECRET_KEY]

\* no logout has succeeded yet: before holds the access tokens issued
\* before a successful logout of their user, presented the tokens successful
\* logouts were called with
NoRevoked == [before |-> {}, presented |-> {}]

Init ==
  /\ live = <<>>
  /\ epoch = NoEpoch
  /\ loggedOut = {}
  /\ now = 0
  /\ users = {}
  /\ nextId = 1
  /\ store = {}
  /\ storeUp = TRUE
  /\ issued = {}
  /\ pc = [p \in Procs |-> "idle"]
  /\ req = [p \in Procs |-> NoReq]
  /\ ret = NoReq
  /\ nops = 0
  /\ environ = Configured
  /\ revoked = NoRevoked

\* History of the requests that overlap: s0 is the store when the first of
\* them began, done the responses so far.  It is kept only while no time has
\* passed and every response so far is a 200 of login, refresh or logout
\* whose store commands all succeeded, and dropped after the second.
Started(p) ==
  IF pc[p] # "idle" THEN epoch
  ELSE IF \A q \in Procs : pc[q] = "idle"
  THEN [s0 |-> store, clean |-> TRUE, done |-> <<>>]
  ELSE epoch

Finished(p, r) ==
  LET e == Started(p)
      keep == /\ e.clean
              /\ r.status = 200
              /\ ~r.raised
              /\ r.op \in {"login", "refresh", "logout"}
              /\ Len(e.done) < 2
      others == \A q \in Procs \ {p} : pc[q] = "idle"
  IN IF keep /\ (others => Len(e.done) = 1)
     THEN [e EXCEPT !.done = Append(@, r)]
     ELSE NoEpoch

\* the tokens of l that do not belong to user_id
Forget(l, user_id) == SelectSeq(l, LAMBDA tok : tok.user_id # user_id)

\* a handler returns: ret is the response delivered by the last step
Answer(p, r) ==
  /\ pc' = [pc EXCEPT ![p] = "idle"]
  /\ req' = [req EXCEPT ![p] = NoReq]
  /\ ret' = r
  /\ epoch' = Finished(p, r)
  /\ live' = IF r.op = "logout" /\ r.payload # NoPayload
             THEN Forget(live, r.payload.user_id)
             ELSE live
  /\ UNCHANGED <<loggedOut, environ>>

Respond(p, r) == Answer(p, r) /\ UNCHANGED revoked

\* a handler moves to its next statement
Goto(p, label, r) ==
  /\ pc' = [pc EXCEPT ![p] = label]
  /\ req' = [req EXCEPT ![p] = r]
  /\ ret' = NoReq
  /\ epoch' = Started(p)
  /\ live' = IF label = "login_session" THEN Append(live, r.access)
             ELSE IF label = "lo_keys" THEN Forget(live, r.payload.user_id)
             ELSE live
  /\ loggedOut' = IF label = "lo_keys"
                  THEN loggedOut \cup {r.payload.user_id}
                  ELSE loggedOut
  /\ UNCHANGED <<environ, revoked>>

\* a request is taken by the first idle worker
Begin(p, op) ==
  /\ pc[p] = "idle"
  /\ \A q \in Procs : q < p => pc[q] # "idle"
  /\ nops < MaxOps
  /\ nops' = nops + 1

NewReq(op) == [NoReq EXCEPT !.op = op]

----------------------------------------------------------------------------
(* POST /auth/register: api/v1/auth.py register, AuthService.register_user *)

\* the handler's checks and the service's role check and lookup
RegisterBegin(p, username, email, password, role) ==
  /\ Begin(p, "register")
  /\ LET r == [NewReq("register") EXCEPT
                 !.username = username, !.password = password,
                 !.user = [id |-> 0, username |-> username, email |-> email,
                           password_hash |-> hash_password(password),
                           role |-> role]]
     IN IF ExistingUser(users, username, email)
        THEN Respond(p, [r EXCEPT !.status = 409,
                           !.error = "User with this username or email already exists"])
        ELSE Goto(p, "reg_commit", r)
  /\ UNCHANGED <<now, users, nextId, store, storeUp, issued>>

\* except IntegrityError: rollback and answer 409
IntegrityError(r) ==
  [r EXCEPT !.status = 409, !.raised = TRUE,
     !.error = "User with this username or email already exists"]

\* db.session.add(new_user); db.session.commit()
RegisterCommit(p) ==
  /\ pc[p] = "reg_commit"
  /\ LET r == req[p] IN
     IF UniqueViolation(users, r.user.username, r.user.email)
     THEN /\ Respond(p, IntegrityError(r))
          /\ UNCHANGED <<users, nextId>>
     ELSE /\ users' = users \cup {[r.user EXCEPT !.id = nextId]}
          /\ nextId' = nextId + 1
          /\ Respond(p, [r EXCEPT !.status = 201, !.user.id = nextId])
  /\ UNCHANGED <<now, store, storeUp, issued, nops>>

\* body.get(key) of a key the body holds as null, or does not hold
None == "None"

\* body.get(key, default)
Get(body, key, default) == IF key \in DOMAIN body THEN body[key] ELSE default

\* not v, for a string or None
Falsy(v) == v \in {None, ""}

\* bug: the length of the password is not checked
RegisterErrorNoLength(body) ==
  IF DOMAIN body = {} THEN "Request body is required"
  ELSE IF \/ Falsy(Get(body, "username", None))
          \/ Falsy(Get(body, "email", None))
          \/ Falsy(Get(body, "password", None))
  THEN "Username, email, and password are required"
  ELSE IF Get(body, "role", "user") \notin {"user", "admin"}
  THEN "Role must be either 'user' or 'admin'"
  ELSE ""

\* the checks of the handler, in its order: the error of the 400 it answers,
\* or "" when the body passes
RegisterError(body) ==
  IF DOMAIN body = {} THEN "Request body is required"
  ELSE IF \/ Falsy(Get(body, "username", None))
          \/ Falsy(Get(body, "email", None))
          \/ Falsy(Get(body, "password", None))
  THEN "Username, email, and password are required"
  ELSE IF Len(body["password"]) < 6
  THEN "Password must be at least 6 characters long"
  ELSE IF Get(body, "role", "user") \notin {"user", "admin"}
  THEN "Role must be either 'user' or 'admin'"
  ELSE ""

\* the handler register(body): a body that fails a check is answered 400
\* before the service is called
register(p, body) ==
  IF RegisterError(body) # ""
  THEN /\ Begin(p, "register")
       /\ Respond(p, [NewReq("register") EXCEPT !.status = 400,
                        !.error = RegisterError(body)])
       /\ UNCHANGED <<now, users, nextId, store, storeUp, issued>>
  ELSE RegisterBegin(p, body["username"], body["email"], body["password"],
                     Get(body, "role", "user"))

----------------------------------------------------------------------------
(* POST /auth/login: api/v1/auth.py login, AuthService.login_user *)

LoginBegin(p, username, password) ==
  /\ Begin(p, "login")
  /\ LET user == authenticate_user(users, username, password)
         r == [NewReq("login") EXCEPT !.username = username,
                 !.password = password]
     IN IF user = NoUser
        THEN Respond(p, [r EXCEPT !.status = 401,
                           !.error = "Invalid username or password"])
        ELSE Goto(p, "login_session",
                  [r EXCEPT !.user = user,
                     !.access = generate_access_token(user.id, user.username,
                                                      user.role, now),
                     !.refresh = generate_refresh_token(user.id, user.username,
                                                        user.role, now)])
  /\ UNCHANGED <<now, users, nextId, store, storeUp, issued>>

\* bug: the password of the body is not checked by the handler
LoginErrorNoPassword(body) ==
  IF DOMAIN body = {} THEN "Request body is required"
  ELSE IF Falsy(Get(body, "username", None))
  THEN "Username and password are required"
  ELSE ""

\* the checks of the handler login(body), in its order: the error of the
\* 400 it answers, or "" when the body passes
LoginError(body) ==
  IF DOMAIN body = {} THEN "Request body is required"
  ELSE IF \/ Falsy(Get(body, "username", None))
          \/ Falsy(Get(body, "password", None))
  THEN "Username and password are required"
  ELSE ""

\* the handler login(body): a body that fails a check is answered 400
\* before the service is called
login(p, body) ==
  IF LoginError(body) # ""
  THEN /\ Begin(p, "login")
       /\ Respond(p, [NewReq("login") EXCEPT !.status = 400,
                        !.error = LoginError(body),
                        !.username = Get(body, "username", None),
                        !.password = Get(body, "password", None)])
       /\ UNCHANGED <<now, users, nextId, store, storeUp, issued>>
  ELSE LoginBegin(p, Get(body, "username", None), Get(body, "password", None))

\* bug: a failed session write fails the login
LoginResponseStrict(r) ==
  IF r.raised
  THEN [r EXCEPT !.status = 500, !.access = NoToken, !.refresh = NoToken]
  ELSE [r EXCEPT !.status = 200]

LoginResponse(r) == [r EXCEPT !.status = 200]

LoginSessionWrite(s, r, t) ==
  Setex(s, SessionKey(r.user.id, r.access), SESSION_TTL, Digits(r.user.id), t)

\* bug: the session data is written with a lifetime of its own
LoginDataWriteLong(s, r, t) ==
  Setex(s, SessionDataKey(r.user.id), 10 * SESSION_TTL, TokenString(r.access), t)

LoginDataWrite(s, r, t) ==
  Setex(s, SessionDataKey(r.user.id), SESSION_TTL, TokenString(r.access), t)

\* redis_client.setex(session_key, SESSION_TTL, str(user.id))
LoginSetSession(p) ==
  /\ pc[p] = "login_session"
  /\ LET r == req[p] IN
     IF storeUp
     THEN /\ store' = LoginSessionWrite(store, r, now)
          /\ Goto(p, "login_data", r)
          /\ UNCHANGED issued
     ELSE /\ Respond(p, LoginResponse([r EXCEPT !.raised = TRUE]))
          /\ issued' = issued \cup {r.access, r.refresh}
          /\ UNCHANGED store
  /\ UNCHANGED <<now, users, nextId, storeUp, nops>>

\* redis_client.setex(f"session_data:{user.id}", SESSION_TTL, str(session_data))
LoginSetData(p) ==
  /\ pc[p] = "login_data"
  /\ LET r == req[p] IN
     IF storeUp
     THEN /\ store' = LoginDataWrite(store, r, now)
          /\ Respond(p, LoginResponse(r))
     ELSE /\ Respond(p, LoginResponse([r EXCEPT !.raised = TRUE]))
          /\ UNCHANGED store
  /\ issued' = issued \cup {req[p].access, req[p].refresh}
  /\ UNCHANGED <<now, users, nextId, storeUp, nops>>

----------------------------------------------------------------------------
(* AuthService.verify_session, as require_auth calls it *)

\* bug: the type check is left out
VerifyDecodeAnyType(tok, t) == decode_token(tok, t)

\* decode_token and the type check: the claims, or None
VerifyDecode(tok, t) ==
  LET payload == decode_token(tok, t) IN
  IF payload = NoPayload THEN NoPayload
  ELSE IF payload.type # "access" THEN NoPayload
  ELSE payload

\* bug: the blacklist lookup is left out
VerifyBlacklistedSkipped(s, tok) == FALSE

\* redis_client.exists(blacklist_key)
VerifyBlacklisted(s, tok) == Exists(s, BlacklistKey(tok))

\* bug: the session lookup always finds a key
VerifySessionKeysAny(s, payload) == {SessionPattern(payload.user_id)}

\* redis_client.keys(session_key_pattern)
VerifySessionKeys(s, payload) == Keys(s, SessionPattern(payload.user_id))

\* bug: the role is read from the directory, not from the token
verify_sessionDirectoryRole(tok, s, t) ==
  LET payload == VerifyDecode(tok, t)
      user == UserById(users, payload.user_id)
  IN
  IF payload = NoPayload THEN NoPayload
  ELSE IF VerifyBlacklisted(s, tok) THEN NoPayload
  ELSE IF VerifySessionKeys(s, payload) = {} THEN NoPayload
  ELSE IF user = NoUser THEN payload
  ELSE [payload EXCEPT !.role = user.role]

\* verify_session run without interruption in store s at time t
verify_session(tok, s, t) ==
  LET payload == VerifyDecode(tok, t) IN
  IF payload = NoPayload THEN NoPayload
  ELSE IF VerifyBlacklisted(s, tok) THEN NoPayload
  ELSE IF VerifySessionKeys(s, payload) = {} THEN NoPayload
  ELSE payload

\* the function a decorator wraps is called
Call(r, f) == [r EXCEPT !.calls = Append(@, f)]

\* require_auth: verify_session returned None
Unauthorized(r) ==
  [r EXCEPT !.status = 401, !.error = "Invalid or expired token"]

\* require_auth: the header gave no token
Unauthenticated(r) ==
  [r EXCEPT !.status = 401, !.error = "Authentication required"]

\* the endpoint the tests put under optional_auth
public_endpoint(r) == [Call(r, "public_endpoint") EXCEPT !.status = 200]

\* GET /users: UserService.get_all_users
list_users(r) == [Call(r, "list_users") EXCEPT !.status = 200]

\* bug: the role is not compared
require_roleAny(role, r) ==
  IF r.payload = NoPayload THEN Unauthenticated(r) ELSE list_users(r)

\* require_role(role) around list_users; r.payload is request.current_user
require_role(role, r) ==
  IF r.payload = NoPayload THEN Unauthenticated(r)
  ELSE IF r.payload.role # role
  THEN [r EXCEPT !.status = 403,
          !.error = "Forbidden: Insufficient permissions"]
  ELSE list_users(r)

\* the decorator's answer when the header gave no token
NoCredentials(r) ==
  IF r.op = "public" THEN public_endpoint(r) ELSE Unauthenticated(r)

\* the decorator's answer when verify_session returned None
Rejected(r) ==
  IF r.op = "public" THEN public_endpoint(r) ELSE Unauthorized(r)

\* an exception no handler catches: the framework answers 500
Unhandled(r) ==
  [r EXCEPT !.status = 500, !.error = "Internal Server Error", !.raised = TRUE]

\* a request to a route under require_auth arrives with a bearer token
AuthBegin(p, op, tok) ==
  /\ Begin(p, op)
  /\ LET r == [NewReq(op) EXCEPT !.token = tok] IN
     IF VerifyDecode(tok, now) = NoPayload
     THEN Respond(p, Unauthorized(r))
     ELSE Goto(p, "vs_exists", r)
  /\ UNCHANGED <<now, users, nextId, store, storeUp, issued>>

\* a request arrives with an Authorization header at a route under
\* require_auth or optional_auth: get_token_from_header, then decode_token
\* and the type check of verify_session
HeaderBegin(p, op, header) ==
  /\ Begin(p, op)
  /\ LET token == get_token_from_header(header)
         r == [NewReq(op) EXCEPT !.header = header,
                 !.token = ParseToken(token)]
     IN IF token = <<>> THEN Respond(p, NoCredentials(r))
        ELSE IF VerifyDecode(r.token, now) = NoPayload
        THEN Respond(p, Rejected(r))
        ELSE Goto(p, "vs_exists", r)
  /\ UNCHANGED <<now, users, nextId, store, storeUp, issued>>

VerifyExists(p) ==
  /\ pc[p] = "vs_exists"
  /\ LET r == req[p] IN
     IF ~storeUp THEN Respond(p, Unhandled(r))
     ELSE IF VerifyBlacklisted(store, r.token) THEN Respond(p, Rejected(r))
     ELSE Goto(p, "vs_keys", r)
  /\ UNCHANGED <<now, users, nextId, store, storeUp, issued, nops>>

\* GET /auth/me
MeResponse(r) == [r EXCEPT !.status = 200]

\* the Authorization header of a request: one that arrived with a bearer
\* token carries 'Bearer <token>'
HeaderOf(r) ==
  IF r.header = <<>> THEN <<"Bearer", " ">> \o TokenString(r.token)
  ELSE r.header

\* bug: the handler takes the word before the space as the token
LogoutSplitScheme(h) ==
  IF FirstSpace(h) = 0 THEN <<>> ELSE SubSeq(h, 1, FirstSpace(h) - 1)

\* _, token = auth_header.split(" ", 1) of the handler logout(): what
\* follows the first space, whatever the scheme; None (here the empty
\* string) for a header without a space
LogoutSplit(h) ==
  IF FirstSpace(h) = 0 THEN <<>> ELSE SubSeq(h, FirstSpace(h) + 1, Len(h))

\* the handler logout() behind require_auth: user_id is taken from
\* request.current_user, the token is split from the header once more, and
\* logout_user(token, user_id) is called
logout(p, r) ==
  LET token == LogoutSplit(HeaderOf(r)) IN
  IF token = <<>>
  THEN Respond(p, [r EXCEPT !.status = 400, !.error = "Token not found"])
  ELSE Goto(p, "lo_keys", [r EXCEPT !.token = ParseToken(token)])

\* bug: a token that is accepted renews the time to live of the session
\* records of its user (a sliding session)
VerifyKeysSliding(p) ==
  /\ pc[p] = "vs_keys"
  /\ LET r == req[p]
         payload == Claims(r.token)
         bound == [r EXCEPT !.payload = payload]
         ks == VerifySessionKeys(store, payload)
     IN
     IF ~storeUp THEN Respond(p, Unhandled(r)) /\ UNCHANGED store
     ELSE IF ks = {} THEN Respond(p, Rejected(r)) /\ UNCHANGED store
     ELSE /\ store' = {IF e.key \in ks
                       THEN [e EXCEPT !.exp = now + SESSION_TTL] ELSE e :
                       e \in store}
          /\ IF r.op = "me" THEN Respond(p, MeResponse(Call(bound, "me")))
             ELSE IF r.op = "public" THEN Respond(p, public_endpoint(bound))
             ELSE IF r.op = "users"
             THEN Respond(p, require_role("admin", Call(bound, "require_role")))
             ELSE logout(p, Call(bound, "logout"))
  /\ UNCHANGED <<now, users, nextId, storeUp, issued, nops>>

\* the session lookup of verify_session, then request.current_user = payload
\* and the call of the wrapped function
VerifyKeys(p) ==
  /\ pc[p] = "vs_keys"
  /\ LET r == req[p]
         payload == Claims(r.token)
         bound == [r EXCEPT !.payload = payload]
     IN
     IF ~storeUp THEN Respond(p, Unhandled(r))
     ELSE IF VerifySessionKeys(store, payload) = {}
     THEN Respond(p, Rejected(r))
     ELSE IF r.op = "me" THEN Respond(p, MeResponse(Call(bound, "me")))
     ELSE IF r.op = "public" THEN Respond(p, public_endpoint(bound))
     ELSE IF r.op = "users"
     THEN Respond(p, require_role("admin", Call(bound, "require_role")))
     ELSE logout(p, Call(bound, "logout"))
  /\ UNCHANGED <<now, users, nextId, store, storeUp, issued, nops>>

----------------------------------------------------------------------------
(* POST /auth/logout: api/v1/auth.py logout, AuthService.logout_user *)

\* bug: the failure is swallowed as in login
LogoutFailedSwallowed(r) == [r EXCEPT !.status = 200, !.raised = TRUE]

\* except Exception: answer 500
LogoutFailed(r) ==
  [r EXCEPT !.status = 500, !.error = "Failed to logout", !.raised = TRUE]

LogoutSucceeded(r) == [r EXCEPT !.status = 200]

\* keys = redis_client.keys(session_pattern)
LogoutKeys(p) ==
  /\ pc[p] = "lo_keys"
  /\ LET r == req[p] IN
     IF ~storeUp THEN Respond(p, LogoutFailed(r))
     ELSE LET ks == Keys(store, SessionPattern(r.payload.user_id)) IN
          Goto(p, IF ks = {} THEN "lo_data" ELSE "lo_delete",
               [r EXCEPT !.keys = ks])
  /\ UNCHANGED <<now, users, nextId, store, storeUp, issued, nops>>

\* for key in keys: redis_client.delete(key)
LogoutDelete(p) ==
  /\ pc[p] = "lo_delete"
  /\ LET r == req[p] IN
     IF ~storeUp
     THEN /\ Respond(p, LogoutFailed(r))
          /\ UNCHANGED store
     ELSE \E k \in r.keys :
            /\ store' = Delete(store, k)
            /\ Goto(p, IF r.keys = {k} THEN "lo_data" ELSE "lo_delete",
                    [r EXCEPT !.keys = r.keys \ {k}])
  /\ UNCHANGED <<now, users, nextId, storeUp, issued, nops>>

\* every key of ks deleted, as the loop over keys leaves the store
LogoutDeleteKeys(s, ks) == {e \in s : e.key \notin ks}

\* bug: the session data is left in the store
LogoutDataDeleteNone(s, r) == s

LogoutDataDelete(s, r) == Delete(s, SessionDataKey(r.payload.user_id))

\* redis_client.delete(f"session_data:{user_id}")
LogoutDeleteData(p) ==
  /\ pc[p] = "lo_data"
  /\ LET r == req[p] IN
     IF ~storeUp
     THEN /\ Respond(p, LogoutFailed(r))
          /\ UNCHANGED store
     ELSE /\ store' = LogoutDataDelete(store, r)
          /\ Goto(p, "lo_blacklist", r)
  /\ UNCHANGED <<now, users, nextId, storeUp, issued, nops>>

\* bug: no blacklist entry is written
LogoutBlacklistWriteNone(s, tok, t) == s

\* bug: every call writes a blacklist key of its own
LogoutBlacklistWriteFresh(s, tok, t) ==
  Setex(s, BlacklistKey(tok) \o Digits(Cardinality(s)), SESSION_TTL, <<"1">>, t)

\* bug: the blacklist entry lives half as long as the token
LogoutBlacklistWriteShort(s, tok, t) ==
  Setex(s, BlacklistKey(tok), SESSION_TTL \div 2, <<"1">>, t)

\* redis_client.setex(blacklist_key, SESSION_TTL, "1")
LogoutBlacklistWrite(s, tok, t) ==
  Setex(s, BlacklistKey(tok), SESSION_TTL, <<"1">>, t)

LogoutBlacklist(p) ==
  /\ pc[p] = "lo_blacklist"
  /\ LET r == req[p] IN
     IF ~storeUp
     THEN /\ Respond(p, LogoutFailed(r))
          /\ UNCHANGED store
     ELSE /\ store' = LogoutBlacklistWrite(store, r.token, now)
          /\ Respond(p, LogoutSucceeded(r))
  /\ UNCHANGED <<now, users, nextId, storeUp, issued, nops>>

\* the access tokens that exist for user_id: handed out, or generated by a
\* login or refresh that is still running
IssuedTo(user_id) ==
  {tok \in issued \cup {req[q].access : q \in Procs} :
     tok.type = "access" /\ tok.user_id = user_id}

\* LogoutBlacklist, with the history of revocations kept: a logout that
\* succeeds revokes the token it was called with and every access token
\* that exists for the user
LogoutBlacklistRecorded(p) ==
  /\ pc[p] = "lo_blacklist"
  /\ LET r == req[p] IN
     IF ~storeUp
     THEN /\ Respond(p, LogoutFailed(r))
          /\ UNCHANGED store
     ELSE /\ store' = LogoutBlacklistWrite(store, r.token, now)
          /\ Answer(p, LogoutSucceeded(r))
          /\ revoked' =
               [before |-> revoked.before \cup IssuedTo(r.payload.user_id),
                presented |-> revoked.presented \cup {r.token}]
  /\ UNCHANGED <<now, users, nextId, storeUp, issued, nops>>

----------------------------------------------------------------------------
(* POST /auth/refresh: api/v1/auth.py refresh, AuthService.refresh_access_token *)

\* bug: the role of the refresh token is copied
RefreshRoleEmbedded(payload, user) == payload.role

\* the role the new access token gets: user.role
RefreshRole(payload, user) == user.role

RefreshBegin(p, tok) ==
  /\ Begin(p, "refresh")
  /\ LET r == [NewReq("refresh") EXCEPT !.token = tok]
         payload == decode_token(tok, now)
         user == UserById(users, payload.user_id)
     IN
     IF payload = NoPayload
     THEN Respond(p, [r EXCEPT !.status = 401, !.error = "Invalid refresh token"])
     ELSE IF payload.type # "refresh"
     THEN Respond(p, [r EXCEPT !.status = 401, !.error = "Invalid token type"])
     ELSE IF user = NoUser
     THEN Respond(p, [r EXCEPT !.status = 404, !.error = "User not found"])
     ELSE Goto(p, "rf_session",
               [r EXCEPT !.payload = payload, !.user = user,
                  !.access = generate_access_token(payload.user_id,
                                                   payload.username,
                                                   RefreshRole(payload, user),
                                                   now)])
  /\ UNCHANGED <<now, users, nextId, store, storeUp, issued>>

RefreshResponse(r) == [r EXCEPT !.status = 200]

RefreshSessionWrite(s, r, t) ==
  Setex(s, SessionKey(r.payload.user_id, r.access), SESSION_TTL,
        Digits(r.payload.user_id), t)

\* redis_client.setex(session_key, SESSION_TTL, str(user_id))
RefreshSetSession(p) ==
  /\ pc[p] = "rf_session"
  /\ LET r == req[p] IN
     IF storeUp
     THEN /\ store' = RefreshSessionWrite(store, r, now)
          /\ Respond(p, RefreshResponse(r))
     ELSE /\ Respond(p, RefreshResponse([r EXCEPT !.raised = TRUE]))
          /\ UNCHANGED store
  /\ issued' = issued \cup {req[p].access}
  /\ UNCHANGED <<now, users, nextId, storeUp, nops>>

----------------------------------------------------------------------------
(* Environment: the clock and the reachability of the session store *)

Tick ==
  /\ now + TickStep <= MaxTime
  /\ now' = now + TickStep
  /\ store' = Expire(store, now')
  /\ ret' = NoReq
  /\ epoch' = NoEpoch
  /\ UNCHANGED <<users, nextId, storeUp, issued, pc, req, nops, live,
               loggedOut, environ, revoked>>

\* the directory changes a user's role (user.role = role; commit)
SetRole(u, role) ==
  /\ u \in users
  /\ u.role # role
  /\ users' = (users \ {u}) \cup {[u EXCEPT !.role = role]}
  /\ ret' = NoReq
  /\ epoch' = NoEpoch
  /\ UNCHANGED <<now, nextId, store, storeUp, issued, pc, req, nops, live,
               loggedOut, environ, revoked>>

\* the directory deletes an account (db.session.delete(user); commit)
DeleteUser(u) ==
  /\ u \in users
  /\ users' = users \ {u}
  /\ ret' = NoReq
  /\ epoch' = NoEpoch
  /\ UNCHANGED <<now, nextId, store, storeUp, issued, pc, req, nops, live,
               loggedOut, environ, revoked>>

StoreDown ==
  /\ storeUp
  /\ storeUp' = FALSE
  /\ ret' = NoReq
  /\ epoch' = NoEpoch
  /\ UNCHANGED <<now, users, nextId, store, issued, pc, req, nops, live,
               loggedOut, environ, revoked>>

StoreBack ==
  /\ ~storeUp
  /\ storeUp' = TRUE
  /\ ret' = NoReq
  /\ epoch' = NoEpoch
  /\ UNCHANGED <<now, users, nextId, store, issued, pc, req, nops, live,
               loggedOut, environ, revoked>>

\* socket_timeout and socket_connect_timeout of the client get_redis_client
\* builds: neither is passed to redis.Redis, whose default is None (the
\* socket blocks until the store answers)
socket_timeout == None

\* the statements that issue a command to the session store
StoreLabels ==
  {"login_session", "login_data", "vs_exists", "vs_keys", "lo_keys",
   "lo_delete", "lo_data", "lo_blacklist", "rf_session"}

\* the store never answers the command worker p has sent: with no socket
\* timeout the call neither returns nor raises, and the worker stays in the
\* read of the reply.  (With a timeout set the call raises
\* redis.TimeoutError, which is the failure of the command.)
StoreSilent(p) ==
  /\ pc[p] \in StoreLabels
  /\ socket_timeout = None
  /\ Goto(p, "recv", req[p])
  /\ UNCHANGED <<now, users, nextId, store, storeUp, issued, nops>>

----------------------------------------------------------------------------
(* Specifications *)

Register ==
  \E p \in Procs, b \in RegRequests :
    RegisterBegin(p, b.username, b.email, b.password, b.role)

Login ==
  \E p \in Procs, u \in Usernames, pw \in Passwords : LoginBegin(p, u, pw)

Me == \E p \in Procs, tok \in Tokens : AuthBegin(p, "me", tok)

Logout == \E p \in Procs, tok \in Tokens : AuthBegin(p, "logout", tok)

Refresh == \E p \in Procs, tok \in Tokens : RefreshBegin(p, tok)

Step ==
  \E p \in Procs :
    \/ RegisterCommit(p)
    \/ LoginSetSession(p)
    \/ LoginSetData(p)
    \/ VerifyExists(p)
    \/ VerifyKeys(p)
    \/ LogoutKeys(p)
    \/ LogoutDelete(p)
    \/ LogoutDeleteData(p)
    \/ LogoutBlacklist(p)
    \/ RefreshSetSession(p)

\* the session store answers every command
Next == Register \/ Login \/ Me \/ Logout \/ Refresh \/ Step \/ Tick

Spec == Init /\ [][Next]_vars

\* the session store may become unreachable at any moment (the clock is
\* held: no outcome of a failed command depends on the time)
NextStoreFail ==
  Register \/ Login \/ Me \/ Logout \/ Refresh \/ Step \/ StoreDown \/ StoreBack

SpecStoreFail == Init /\ [][NextStoreFail]_vars

\* GET /auth/me, under require_auth
MeHeader == \E p \in Procs, h \in Headers : HeaderBegin(p, "me", h)

\* a user table of a deployment: alice, and bob whose row was made before
\* the password_hash column was added and still holds NULL in it
DirectoryRows ==
  {[id |-> 1, username |-> "alice", email |-> "a@x.com",
    password_hash |-> hash_password("secret1"), role |-> "user"],
   [id |-> 2, username |-> "bob", email |-> "b@x.com",
    password_hash |-> <<>>, role |-> "user"]}

InitLogin ==
  /\ live = <<>>
  /\ epoch = NoEpoch
  /\ loggedOut = {}
  /\ now = 0
  /\ users \in SUBSET DirectoryRows
  /\ nextId = 3
  /\ store = {}
  /\ storeUp = TRUE
  /\ issued = {}
  /\ pc = [p \in Procs |-> "idle"]
  /\ req = [p \in Procs |-> NoReq]
  /\ ret = NoReq
  /\ nops = 0
  /\ environ = Configured
  /\ revoked = NoRevoked

StepLogin == \E p \in Procs : LoginSetSession(p) \/ LoginSetData(p)

\* logins against every such user table
NextLogin == Login \/ StepLogin \/ Tick

SpecLogin == InitLogin /\ [][NextLogin]_vars

\* GET /users with a bearer token
UsersBearer == \E p \in Procs, tok \in Tokens : AuthBegin(p, "users", tok)

Roles == {"user", "admin"}

PromoteOrDemote == \E u \in users, role \in Roles : SetRole(u, role)

RemoveAccount == \E u \in users : DeleteUser(u)

StepDirectory ==
  \E p \in Procs :
    \/ RegisterCommit(p)
    \/ LoginSetSession(p)
    \/ LoginSetData(p)
    \/ VerifyExists(p)
    \/ VerifyKeys(p)
    \/ RefreshSetSession(p)

\* no request is being handled
Quiet == \A p \in Procs : pc[p] = "idle"

\* the user directory changes under the running service: roles are changed
\* and accounts deleted between requests and between the statements of one
\* (a request is taken when the one before it has been answered: requests
\* that overlap are Spec's)
NextDirectory ==
  \/ Quiet /\ (Register \/ Login \/ Refresh \/ UsersBearer)
  \/ StepDirectory
  \/ PromoteOrDemote
  \/ RemoveAccount

SpecDirectory == Init /\ [][NextDirectory]_vars

\* GET /users, under require_auth and require_role("admin")
Users == \E p \in Procs, h \in Headers : HeaderBegin(p, "users", h)

\* an endpoint under optional_auth
Public == \E p \in Procs, h \in Headers : HeaderBegin(p, "public", h)

\* the statements of the handlers behind those routes
StepAccess ==
  \E p \in Procs :
    \/ RegisterCommit(p)
    \/ LoginSetSession(p)
    \/ LoginSetData(p)
    \/ VerifyExists(p)
    \/ VerifyKeys(p)
    \/ LogoutKeys(p)
    \/ LogoutDelete(p)
    \/ LogoutDeleteData(p)
    \/ LogoutBlacklist(p)

\* the decorated routes, with every kind of Authorization header.  The
\* decorators keep no state between requests: here a request is taken when
\* the one before it has been answered (requests that overlap are Spec's).
NextAccess ==
  \/ Quiet /\ (Register \/ Login \/ Logout \/ MeHeader \/ Users \/ Public)
  \/ StepAccess
  \/ Tick

SpecAccess == Init /\ [][NextAccess]_vars

\* the decorated routes while the session store may become unreachable
NextAccessFail ==
  \/ Quiet /\ (Register \/ Login \/ Logout \/ MeHeader \/ Users \/ Public)
  \/ StepAccess
  \/ StoreDown
  \/ StoreBack

SpecAccessFail == Init /\ [][NextAccessFail]_vars

\* a field a request body does not hold
Absent == "Absent"

\* the JSON object with the given fields
Body(username, email, password, role) ==
  LET full == [username |-> username, email |-> email,
               password |-> password, role |-> role]
  IN [k \in {f \in DOMAIN full : full[f] # Absent} |-> full[k]]

\* the bodies clients post to /auth/register: complete ones, ones with a
\* field missing, null or empty, a password of five characters, a role
\* that does not exist
RegBodies ==
  {Body(u, e, pw, ro) :
     u \in Usernames \cup {"", Absent},
     e \in {"a@x.com", "b@x.com", Absent},
     pw \in Passwords \cup {"12345", None, Absent},
     ro \in Roles \cup {"root", Absent}}

RegisterBody == \E p \in Procs, b \in RegBodies : register(p, b)

StepRegister ==
  \E p \in Procs : RegisterCommit(p) \/ LoginSetSession(p) \/ LoginSetData(p)

\* registrations with every kind of body, and the logins that follow them
\* (a request is taken when the one before it has been answered: requests
\* that overlap are Spec's)
NextRegister == (Quiet /\ (RegisterBody \/ Login)) \/ StepRegister

SpecRegister == Init /\ [][NextRegister]_vars

\* wire forms nobody signed: an issued token with its signature cut off
\* (alg none), and with the role in its payload rewritten
Tampered ==
  {TokenString([tok EXCEPT !.sig = ""]) : tok \in issued}
    \cup {TokenString([tok EXCEPT !.role = "root"]) : tok \in issued}

\* GET /auth/me with such a string as the bearer token
MeTampered ==
  \E p \in Procs, w \in Tampered : HeaderBegin(p, "me", <<"Bearer", " ">> \o w)

\* the whole service, one request at a time (requests that overlap are
\* Spec's), with every kind of token presented
NextSession ==
  \/ Quiet /\ (Register \/ Login \/ Logout \/ Refresh \/ MeHeader \/ MeTampered)
  \/ Step
  \/ Tick

SpecSession == Init /\ [][NextSession]_vars

\* the next statement of the handler worker p runs
StepOf(p) ==
  \/ RegisterCommit(p)
  \/ LoginSetSession(p)
  \/ LoginSetData(p)
  \/ VerifyExists(p)
  \/ VerifyKeys(p)
  \/ LogoutKeys(p)
  \/ LogoutDelete(p)
  \/ LogoutDeleteData(p)
  \/ LogoutBlacklist(p)
  \/ RefreshSetSession(p)

\* no worker is between two statements of a handler
Calm == \A p \in Procs : pc[p] \in {"idle", "recv"}

Silent == \E p \in Procs : StoreSilent(p)

\* the service over a store that may leave a command unanswered; a request
\* is taken when every other worker has answered or waits for the store
NextSilent ==
  \/ Calm /\ (Register \/ Login \/ Me \/ Logout \/ Refresh)
  \/ Step
  \/ Silent

SpecSilent == Init /\ [][NextSilent]_vars

\* the environment with JWT_SECRET_KEY = j and SECRET_KEY = k
EnvOf(j, k) ==
  LET full == [JWT_SECRET_KEY |-> j, SECRET_KEY |-> k]
  IN [v \in {f \in DOMAIN full : full[f] # Absent} |-> full[v]]

\* the environments a deployment may start the server in: each of the two
\* variables unset, set to the empty string, or set to the secret
Environments ==
  {EnvOf(j, k) : j \in {Absent, "", JWT_SECRET_KEY},
                 k \in {Absent, "", JWT_SECRET_KEY}}

\* bug: a built-in secret stands in for a missing one
LoadSecretDefault(env) ==
  IF ~Falsy(Get(env, "JWT_SECRET_KEY", None)) THEN env["JWT_SECRET_KEY"]
  ELSE IF ~Falsy(Get(env, "SECRET_KEY", None)) THEN env["SECRET_KEY"]
  ELSE "dev-secret"

\* os.getenv("JWT_SECRET_KEY") or os.getenv("SECRET_KEY")
LoadSecret(env) ==
  IF ~Falsy(Get(env, "JWT_SECRET_KEY", None)) THEN env["JWT_SECRET_KEY"]
  ELSE Get(env, "SECRET_KEY", None)

\* the server process starts: no module has been imported yet
InitStartup ==
  /\ live = <<>>
  /\ epoch = NoEpoch
  /\ loggedOut = {}
  /\ now = 0
  /\ users = {}
  /\ nextId = 1
  /\ store = {}
  /\ storeUp = TRUE
  /\ issued = {}
  /\ pc = [p \in Procs |-> "import"]
  /\ req = [p \in Procs |-> NoReq]
  /\ ret = NoReq
  /\ nops = 0
  /\ environ \in Environments
  /\ revoked = NoRevoked

\* import of app.utils.jwt_utils: if not JWT_SECRET_KEY: raise ValueError,
\* which ends the process before a request is served
ImportModule ==
  /\ \A p \in Procs : pc[p] = "import"
  /\ IF Falsy(LoadSecret(environ))
     THEN /\ pc' = [p \in Procs |-> "crashed"]
          /\ ret' = [NewReq("import") EXCEPT !.raised = TRUE,
                       !.error = "JWT_SECRET_KEY or SECRET_KEY environment variable is required"]
     ELSE /\ pc' = [p \in Procs |-> "idle"]
          /\ ret' = NewReq("import")
  /\ UNCHANGED <<now, users, nextId, store, storeUp, issued, req, nops, live,
                 epoch, loggedOut, environ, revoked>>

\* the server from its start in every such environment
NextStartup ==
  \/ ImportModule
  \/ Quiet /\ (Register \/ Login \/ Refresh \/ Me)
  \/ StepDirectory

SpecStartup == InitStartup /\ [][NextStartup]_vars

\* the statements of the handlers, the revocations recorded
StepRevocation ==
  \E p \in Procs :
    \/ RegisterCommit(p)
    \/ LoginSetSession(p)
    \/ LoginSetData(p)
    \/ VerifyExists(p)
    \/ VerifyKeys(p)
    \/ LogoutKeys(p)
    \/ LogoutDelete(p)
    \/ LogoutDeleteData(p)
    \/ LogoutBlacklistRecorded(p)
    \/ RefreshSetSession(p)

\* the service, one request at a time, with the history of what each
\* successful logout revoked
NextRevocation ==
  \/ Quiet /\ (Register \/ Login \/ Logout \/ Refresh \/ Me)
  \/ StepRevocation
  \/ Tick

SpecRevocation == Init /\ [][NextRevocation]_vars

\* the bodies clients post to /auth/login: complete ones, ones with a field
\* missing, null or empty, and the empty object
LoginBodies ==
  {Body(u, Absent, pw, Absent) :
     u \in Usernames \cup {"", None, Absent},
     pw \in Passwords \cup {"", None, Absent}}

LoginBody == \E p \in Procs, b \in LoginBodies : login(p, b)

\* logins with every kind of body against every user table of InitLogin
NextLoginBody == LoginBody \/ StepLogin \/ Tick

SpecLoginBody == InitLogin /\ [][NextLoginBody]_vars

\* POST /auth/logout with every kind of Authorization header
LogoutHeader == \E p \in Procs, h \in Headers : HeaderBegin(p, "logout", h)

\* registrations, logins and logouts of two users, one request at a time
NextOwner ==
  \/ Quiet /\ (Register \/ Login \/ LogoutHeader)
  \/ StepAccess
  \/ Tick

SpecOwner == Init /\ [][NextOwner]_vars

\* a user table in which the decimal id of alice is a prefix of bob's
PrefixRows ==
  {[id |-> 1, username |-> "alice", email |-> "a@x.com",
    password_hash |-> hash_password("secret1"), role |-> "user"],
   [id |-> 11, username |-> "bob", email |-> "b@x.com",
    password_hash |-> hash_password("secret1"), role |-> "user"]}

InitPrefix ==
  /\ live = <<>>
  /\ epoch = NoEpoch
  /\ loggedOut = {}
  /\ now = 0
  /\ users = PrefixRows
  /\ nextId = 12
  /\ store = {}
  /\ storeUp = TRUE
  /\ issued = {}
  /\ pc = [p \in Procs |-> "idle"]
  /\ req = [p \in Procs |-> NoReq]
  /\ ret = NoReq
  /\ nops = 0
  /\ environ = Configured
  /\ revoked = NoRevoked

\* the statements of login_user, verify_session and logout_user
StepSessions ==
  \E p \in Procs :
    \/ LoginSetSession(p)
    \/ LoginSetData(p)
    \/ VerifyExists(p)
    \/ VerifyKeys(p)
    \/ LogoutKeys(p)
    \/ LogoutDelete(p)
    \/ LogoutDeleteData(p)
    \/ LogoutBlacklist(p)

\* logins and logouts of the users 1 and 11, one request at a time (each
\* store command of logout_user names its key, whatever runs beside it)
NextPrefix ==
  \/ Quiet /\ (Login \/ Logout)
  \/ StepSessions
  \/ Tick

SpecPrefix == InitPrefix /\ [][NextPrefix]_vars

----------------------------------------------------------------------------
(* Properties *)

Decodes(tok) == tok.sig = JWT_SECRET_KEY /\ tok.exp > now

Blacklisted(tok) == \E e \in store : e.key = BlacklistKey(tok)

HasSession(user_id) ==
  \E e \in store :
    /\ Len(e.key) >= Len(SessionPattern(user_id))
    /\ SubSeq(e.key, 1, Len(SessionPattern(user_id))) = SessionPattern(user_id)

\* worker p leaves statement label in this step
Leaves(p, label) == pc[p] = label /\ pc'[p] # label

\* require_auth bound an identity for worker p in this step
Bound(p) ==
  /\ pc[p] = "vs_keys"
  /\ \/ pc'[p] = "lo_keys"
     \/ pc'[p] = "idle" /\ ret'.op = "me" /\ ret'.status = 200

\* C1: verify_session returns the identity claims only if the token decodes,
\* its type is 'access', no blacklist entry exists for its first 16
\* characters and some key session:{user_id}:* exists; in every other case
\* it returns None (require_auth answers 401).
C1_VerifySessionChecks ==
  /\ [](\A tok \in Tokens :
          /\ verify_session(tok, store, now) \in {NoPayload, Claims(tok)}
          /\ verify_session(tok, store, now) = Claims(tok)
               <=> /\ Decodes(tok)
                   /\ tok.type = "access"
                   /\ ~Blacklisted(tok)
                   /\ HasSession(tok.user_id))
  /\ [][\A p \in Procs :
          /\ (pc[p] = "idle" /\ pc'[p] = "vs_exists")
               => Decodes(req'[p].token) /\ req'[p].token.type = "access"
          /\ (pc[p] = "vs_exists" /\ pc'[p] = "vs_keys")
               => ~Blacklisted(req[p].token)
          /\ Bound(p)
               => /\ HasSession(req[p].token.user_id)
                  /\ IF pc'[p] = "idle" THEN ret'.payload = Claims(req[p].token)
                     ELSE req'[p].payload = Claims(req[p].token)
          /\ ((Leaves(p, "vs_exists") \/ Leaves(p, "vs_keys")) /\ pc'[p] = "idle"
                /\ ~Bound(p))
               => ret'.status = 401 /\ ret'.payload = NoPayload
          /\ (nops' # nops /\ pc' = pc /\ ret'.op \in {"me", "logout"})
               => ret'.status = 401 /\ ret'.payload = NoPayload
     ]_vars

C1_Witness ==
  /\ ret.op = "me"
  /\ ret.status = 200
  /\ ret.payload = Claims(ret.token)
  /\ HasSession(ret.token.user_id)

\* C3: in the state reached when logout returns success, verify_session
\* returns None for the presented token and for every other access token
\* issued earlier to the same user.
C3_LogoutRevokesUser ==
  (ret.op = "logout" /\ ret.status = 200)
    => \A tok \in issued :
         (tok = ret.token \/ tok.user_id = ret.payload.user_id)
           => verify_session(tok, store, now) = NoPayload

C3_Witness ==
  /\ ret.op = "logout"
  /\ ret.status = 200
  /\ \E tok \in issued :
       /\ tok # ret.token
       /\ tok.type = "access"
       /\ tok.user_id = ret.payload.user_id
       /\ Decodes(tok)

\* C6: verify_session never returns an identity for a refresh-type token,
\* and refresh never issues an access token from an access-type token: it
\* answers 401 'Invalid token type'.
C6_TokenTypeMatchesOperation ==
  /\ \A tok \in Tokens :
       tok.type = "refresh" => verify_session(tok, store, now) = NoPayload
  /\ (ret.op \in {"me", "logout"} /\ ret.token.type # "access")
       => ret.status = 401 /\ ret.payload = NoPayload
  /\ \A p \in Procs :
       pc[p] \in {"vs_exists", "vs_keys", "lo_keys", "lo_delete", "lo_data",
                  "lo_blacklist"}
         => req[p].token.type = "access"
  /\ (ret.op = "refresh" /\ ret.token.type = "access")
       => /\ ret.status = 401
          /\ ret.access = NoToken
          /\ Decodes(ret.token) => ret.error = "Invalid token type"
  /\ \A p \in Procs : pc[p] = "rf_session" => req[p].token.type = "refresh"

C6_Witness ==
  /\ ret.op = "refresh"
  /\ ret.token.type = "access"
  /\ ret.error = "Invalid token type"
  /\ \E tok \in issued : tok.type = "refresh" /\ HasSession(tok.user_id)

\* C10: while a blacklist entry for a token's 16-character prefix exists,
\* verify_session rejects that token whatever session records exist for the
\* user, including records created by later logins or refreshes.
C10_BlacklistOverridesSessions ==
  /\ [](\A tok \in Tokens :
          Blacklisted(tok) => verify_session(tok, store, now) = NoPayload)
  /\ [][\A p \in Procs :
          (Leaves(p, "vs_exists") /\ Blacklisted(req[p].token))
            => pc'[p] = "idle" /\ ret'.status = 401 /\ ret'.payload = NoPayload
     ]_vars

C10_Witness ==
  /\ ret.op = "me"
  /\ ret.status = 401
  /\ Decodes(ret.token)
  /\ ret.token.type = "access"
  /\ Blacklisted(ret.token)
  /\ HasSession(ret.token.user_id)

\* no worker is inside logout_user for user_id
NoLogoutRunning(user_id) ==
  \A p \in Procs :
    pc[p] \in {"lo_keys", "lo_delete", "lo_data", "lo_blacklist"}
      => req[p].payload.user_id # user_id

\* the login that generated tok has returned
Returned(tok) ==
  \A p \in Procs :
    pc[p] \in {"login_session", "login_data"} => req[p].access # tok

Accepted(tok) == verify_session(tok, store, now) = Claims(tok)

\* C2: for every login that returns 200, verify_session on the returned
\* access token, called before the token expires and with no logout of that
\* user in between, returns the identity of the logged-in user.
C2_LoginThenVerify ==
  \A i \in DOMAIN live :
    (/\ Returned(live[i])
     /\ live[i].exp > now
     /\ NoLogoutRunning(live[i].user_id))
      => /\ Accepted(live[i])
         /\ \E u \in users :
              /\ u.id = live[i].user_id
              /\ u.username = live[i].username

\* C9: after two successful logins of the same user with no logout in
\* between, verify_session accepts both access tokens until each expires.
C9_SecondLoginKeepsFirst ==
  \A i, j \in DOMAIN live :
    (/\ i < j
     /\ Returned(live[i]) /\ Returned(live[j])
     /\ live[i].user_id = live[j].user_id
     /\ NoLogoutRunning(live[i].user_id))
      => /\ live[i].exp > now => Accepted(live[i])
         /\ live[j].exp > now => Accepted(live[j])

LogoutLabels == {"lo_keys", "lo_delete", "lo_data", "lo_blacklist"}

\* worker p executes a statement in this step
Moves(p) == req'[p] # req[p]

\* C4: logout returns success (200) only if every session-store command it
\* issued succeeded; if the key listing, any delete or the blacklist write
\* fails, logout returns a failure (500) and never reports success.
C4_LogoutSurfacesStoreFailure ==
  /\ []((ret.op = "logout" /\ ret.status = 200) => ~ret.raised)
  /\ [][/\ \A p \in Procs :
             (pc[p] \in LogoutLabels /\ Moves(p) /\ ~storeUp)
               => /\ pc'[p] = "idle"
                  /\ ret'.op = "logout"
                  /\ ret'.status = 500
                  /\ store' = store
        /\ (ret'.op = "logout" /\ ret'.status = 200)
             => /\ storeUp
                /\ \E p \in Procs : pc[p] = "lo_blacklist" /\ pc'[p] = "idle"
     ]_vars

C4_Witness ==
  /\ ret.op = "logout"
  /\ ret.status = 500
  /\ ret.error = "Failed to logout"
  /\ ~storeUp

\* C5: login and refresh return 200 with the issued token(s) whenever the
\* credentials (resp. the refresh token and the user lookup) are valid,
\* whether or not the session-store writes succeed; a write failure never
\* turns into an error response of login or refresh.
C5_LoginRefreshSwallowStoreFailure ==
  /\ []((ret.op = "login" /\ ret.user # NoUser)
          => /\ ret.status = 200
             /\ ret.access.type = "access" /\ ret.access \in issued
             /\ ret.refresh.type = "refresh" /\ ret.refresh \in issued)
  /\ []((ret.op = "refresh" /\ ret.user # NoUser)
          => /\ ret.status = 200
             /\ ret.access.type = "access" /\ ret.access \in issued)
  /\ [](ret.op \in {"login", "refresh"} => ret.status \in {200, 401, 404})
  /\ [][\A p \in Procs :
          (pc[p] \in {"login_session", "login_data", "rf_session"}
             /\ Moves(p) /\ ~storeUp)
            => /\ pc'[p] = "idle"
               /\ ret'.status = 200
               /\ ret'.access = req[p].access
               /\ ret'.refresh = req[p].refresh
               /\ store' = store
     ]_vars

C5_Witness ==
  /\ ret.op = "login"
  /\ ret.status = 200
  /\ ret.raised
  /\ ret.access \in issued
  /\ ~HasSession(ret.user.id)

Collides(u, v) == u.username = v.username \/ u.email = v.email

\* C8: under any interleaving of concurrent register calls the user table
\* never holds two users with the same username or the same email; of
\* registrations that collide at most one returns 201 and every other
\* returns 409, never a generic 500.
C8_RegisterRace ==
  /\ [](\A u, v \in users : u # v => ~Collides(u, v) /\ u.id # v.id)
  /\ [](ret.op = "register"
          => /\ ret.status \in {201, 409}
             /\ ret.status = 201 => ret.user \in users
             /\ ret.status = 409 => \E u \in users : Collides(u, ret.user))
  /\ [][(ret'.op = "register" /\ ret'.status = 201)
          => /\ ~\E u \in users : Collides(u, ret'.user)
             /\ users' = users \cup {ret'.user}
     ]_vars

C8_Witness ==
  /\ ret.op = "register"
  /\ ret.status = 409
  /\ ret.raised
  /\ Cardinality(users) = 1

----------------------------------------------------------------------------
(* Serial executions, for the comparison with interleaved ones *)

\* the user a response of login, refresh or logout is about
SubjectOf(r) == IF r.op = "login" THEN r.user.id ELSE r.payload.user_id

\* the store after the request answered by r ran alone on store s at time t
Effect(s, r, t) ==
  IF r.op = "login" THEN LoginDataWrite(LoginSessionWrite(s, r, t), r, t)
  ELSE IF r.op = "refresh" THEN RefreshSessionWrite(s, r, t)
  ELSE LogoutBlacklistWrite(
         LogoutDataDelete(
           LogoutDeleteKeys(s, Keys(s, SessionPattern(r.payload.user_id))), r),
         r.token, t)

\* two overlapping requests have both been answered: a logout and a login or
\* refresh of the same user
RaceOver(kind) ==
  /\ \A p \in Procs : pc[p] = "idle"
  /\ Len(epoch.done) = 2
  /\ {epoch.done[1].op, epoch.done[2].op} = {"logout", kind}
  /\ SubjectOf(epoch.done[1]) = SubjectOf(epoch.done[2])

SerialOutcomes ==
  {Effect(Effect(epoch.s0, epoch.done[1], now), epoch.done[2], now),
   Effect(Effect(epoch.s0, epoch.done[2], now), epoch.done[1], now)}

\* C7: for a logout of user u running concurrently with a login or refresh
\* of the same user, store commands interleaved one at a time, the final
\* session-store contents equal the contents produced by one of the serial
\* orders of the two operations.
C7_LogoutSerializable ==
  (RaceOver("login") \/ RaceOver("refresh")) => store \in SerialOutcomes

\* the refresh half of C7 alone
LogoutRefreshSerializable == RaceOver("refresh") => store \in SerialOutcomes

----------------------------------------------------------------------------
(* Keys of the session store *)

\* C11: a blacklist entry marks one specific token as rejected: a successful
\* logout by user A never makes verify_session reject an unexpired access
\* token of a different user B who has a live session record and never
\* logged out.
C11_LogoutLeavesOtherUsers ==
  \A tok \in issued :
    (/\ tok.type = "access"
     /\ Decodes(tok)
     /\ HasSession(tok.user_id)
     /\ tok.user_id \notin loggedOut)
      => Accepted(tok)

SessionRecords(user_id) == Keys(store, SessionPattern(user_id))

\* C12: each successful login and each successful refresh writes its session
\* record under a key session:{user_id}:{first 16 characters of the new
\* access token} that differs from the key of every other login or refresh
\* event, so that n logins of one user leave n distinct session records
\* until they expire.
C12_SessionKeyPerEvent ==
  /\ \A t1, t2 \in issued :
       (t1.type = "access" /\ t2.type = "access" /\ t1 # t2)
         => SessionKey(t1.user_id, t1) # SessionKey(t2.user_id, t2)
  /\ \A i, j \in DOMAIN live :
       (/\ live[i] # live[j]
        /\ live[i].user_id = live[j].user_id
        /\ Returned(live[i]) /\ Returned(live[j])
        /\ NoLogoutRunning(live[i].user_id)
        /\ live[i].iat + SESSION_TTL > now
        /\ live[j].iat + SESSION_TTL > now)
         => Cardinality(SessionRecords(live[i].user_id)) >= 2

----------------------------------------------------------------------------
(* Access control: require_auth, optional_auth, require_role *)

\* the header is 'Bearer <token>' with the scheme in any casing
BearerHeader(h) ==
  /\ Len(h) >= 3
  /\ h[1] \in {"Bearer", "BEARER", "bearer"}
  /\ h[2] = " "

\* the token the header carries
Carried(h, tok) == tok \in Tokens /\ SubSeq(h, 3, Len(h)) = TokenString(tok)

\* the decorator called the function it wraps
Invoked(r) == r.calls # <<>>

\* C13: on a route under require_auth followed by require_role(r) the
\* response is 401 when no verified identity is bound to the request, 403
\* when the bound identity's role differs from r, and the handler runs only
\* when the role equals r; an unauthenticated request never gets 403 and a
\* non-matching role never reaches the handler.
C13_RoleGate ==
  ret.op = "users"
    => /\ ret.status \in {200, 401, 403}
       /\ ret.payload \in {NoPayload, Claims(ret.token)}
       /\ ret.status = 401 <=> ret.payload = NoPayload
       /\ ret.status = 403
            <=> ret.payload # NoPayload /\ ret.payload.role # "admin"
       /\ ret.status = 200
            <=> ret.payload # NoPayload /\ ret.payload.role = "admin"
       /\ ret.calls = <<"require_role", "list_users">> <=> ret.status = 200
       /\ ret.status # 200 => ret.calls \in {<<>>, <<"require_role">>}
       /\ ret.calls = <<"require_role">> <=> ret.status = 403

C13_Witness ==
  /\ ret.op = "users"
  /\ ret.status = 403
  /\ ret.payload.role = "user"
  /\ ret.calls = <<"require_role">>
  /\ \E tok \in issued : tok.role = "admin"

RequireAuthRoutes == {"me", "users"}

\* C14: require_auth invokes the wrapped handler only when the Authorization
\* header carries a bearer token for which verify_session returned an
\* identity, and then exactly that identity is bound to the request; with a
\* missing or malformed header or a failed verification it answers 401 and
\* the handler is not invoked.
C14_RequireAuth ==
  /\ [](ret.op \in RequireAuthRoutes
          => /\ Invoked(ret)
                  => /\ BearerHeader(ret.header)
                     /\ Carried(ret.header, ret.token)
                     /\ ret.token.type = "access"
                     /\ ret.token.sig = JWT_SECRET_KEY
                     /\ ret.payload = Claims(ret.token)
             /\ ~Invoked(ret) => ret.status = 401 /\ ret.payload = NoPayload
             /\ ~BearerHeader(ret.header)
                  => /\ ~Invoked(ret)
                     /\ ret.error = "Authentication required")
  /\ [][\A p \in Procs :
          req[p].op \in RequireAuthRoutes
            => /\ (Leaves(p, "vs_exists") /\ Blacklisted(req[p].token))
                    => ret'.status = 401 /\ ~Invoked(ret')
               /\ Leaves(p, "vs_keys")
                    => IF HasSession(req[p].token.user_id)
                       THEN /\ Invoked(ret')
                            /\ ret'.payload = Claims(req[p].token)
                       ELSE ret'.status = 401 /\ ~Invoked(ret')
     ]_vars
  /\ [][(nops' # nops /\ ret'.op \in RequireAuthRoutes)
          => /\ ret'.status = 401
             /\ ~Invoked(ret')
             /\ \/ ~BearerHeader(ret'.header)
                \/ ~Carried(ret'.header, ret'.token)
                \/ ~Decodes(ret'.token)
                \/ ret'.token.type # "access"
     ]_vars

C14_Witness ==
  /\ ret.op \in RequireAuthRoutes
  /\ Invoked(ret)
  /\ ret.header[1] = "BEARER"
  /\ ret.payload = Claims(ret.token)
  /\ ret.payload.user_id \in {u.id : u \in users}

\* the answer of optional_auth's route: the handler ran, with the verified
\* identity or none
OptionalAuthAnswer(r) ==
  /\ r.status = 200
  /\ r.calls = <<"public_endpoint">>
  /\ r.payload \in {NoPayload, Claims(r.token)}
  /\ r.payload # NoPayload
       => /\ BearerHeader(r.header)
          /\ Carried(r.header, r.token)
          /\ r.token.type = "access"
          /\ r.token.sig = JWT_SECRET_KEY

\* C15: optional_auth never fails the request: for every request (no
\* header, malformed header, invalid, expired, blacklisted or session-less
\* token, valid token) the wrapped handler is invoked, with the verified
\* identity bound when verify_session succeeds and a null identity bound
\* otherwise.
C15_OptionalAuthNeverFails == ret.op = "public" => OptionalAuthAnswer(ret)

\* C15 while the session store answers every command (under SpecAccess)
OptionalAuthWithStore ==
  /\ [](ret.op = "public" => OptionalAuthAnswer(ret))
  /\ [][\A p \in Procs :
          (req[p].op = "public" /\ Leaves(p, "vs_keys"))
            => (ret'.payload = Claims(req[p].token)
                  <=> HasSession(req[p].token.user_id))
     ]_vars

\* C20: verify_session absorbs every failure: for every token and every
\* session-store condition, including the store being unreachable during
\* the blacklist lookup or the session-key listing, it returns either the
\* identity or the uniform negative result (None, answered as 401 by
\* require_auth) and never propagates an error.
C20_VerifySessionAbsorbs ==
  /\ [](\A p \in Procs : pc[p] \in LogoutLabels => Invoked(req[p]))
  /\ []((ret.op \in {"me", "logout"} /\ ~Invoked(ret))
          => ret.status = 401 /\ ~ret.raised)
  /\ [][\A p \in Procs :
          (Leaves(p, "vs_exists") \/ Leaves(p, "vs_keys"))
            => \/ pc'[p] # "idle"
               \/ Invoked(ret') /\ ret'.payload = Claims(req[p].token)
               \/ ret'.status = 401 /\ ret'.payload = NoPayload
     ]_vars

----------------------------------------------------------------------------
(* The user directory under refresh and under issued tokens *)

\* the directory holds a user with this id
InDirectory(user_id) == \E u \in users : u.id = user_id

\* the role the directory holds for user_id
DirectoryRole(user_id) == (CHOOSE u \in users : u.id = user_id).role

\* C16: refresh returns 404 exactly when the presented token decodes, has
\* type 'refresh', and no user with its user_id exists in the directory any
\* more; in that case no access token is issued and no session record is
\* written.
C16_RefreshUserGone ==
  /\ []((ret.op = "refresh" /\ ret.status = 404)
          => /\ ret.access = NoToken
             /\ ret.error = "User not found")
  /\ [][(nops' # nops /\ ret'.op = "refresh")
          => /\ ret'.status = 404
                  <=> /\ Decodes(ret'.token)
                      /\ ret'.token.type = "refresh"
                      /\ ~InDirectory(ret'.token.user_id)
             /\ ret'.status = 404 => store' = store /\ issued' = issued
     ]_vars
  /\ [][\A p \in Procs :
          (pc[p] = "idle" /\ pc'[p] = "rf_session")
            => InDirectory(req'[p].token.user_id)
     ]_vars

C16_Witness ==
  /\ ret.op = "refresh"
  /\ ret.status = 404
  /\ ret.token \in issued
  /\ HasSession(ret.token.user_id)

\* C17: on every successful refresh, the role claim of the new access token
\* equals the user's role in the directory at refresh time, not the role
\* embedded in the refresh token.
C17_RefreshCurrentRole ==
  /\ []((ret.op = "refresh" /\ ret.status = 200)
          => /\ ret.access.role = ret.user.role
             /\ ret.access.user_id = ret.token.user_id
             /\ ret.user.id = ret.token.user_id
             /\ ret.access \in issued)
  /\ [][\A p \in Procs :
          (pc[p] = "idle" /\ pc'[p] = "rf_session")
            => /\ req'[p].access.role = DirectoryRole(req'[p].token.user_id)
               /\ req'[p].user \in users
     ]_vars
  /\ [][\A p \in Procs :
          (pc[p] = "rf_session" /\ pc'[p] = "idle")
            => ret'.status = 200 /\ ret'.access = req[p].access
     ]_vars

C17_Witness ==
  /\ ret.op = "refresh"
  /\ ret.status = 200
  /\ ret.token.role = "user"
  /\ ret.access.role = "admin"

\* the role gate's decision on an identity
GateDecision(payload) ==
  require_role("admin", [NewReq("users") EXCEPT !.payload = payload]).status

\* C18: the identity of an issued token is never mutated: verify_session
\* returns the user_id, username and role embedded at issuance, and a
\* change of the user's role in the directory does not change the identity
\* returned for, nor the role-gate decision on, an already issued access
\* token; the change shows only in tokens issued by a later login or
\* refresh.
C18_IssuedIdentityFixed ==
  /\ [](\A tok \in issued :
          LET payload == verify_session(tok, store, now) IN
          payload # NoPayload
            => /\ payload.user_id = tok.user_id
               /\ payload.username = tok.username
               /\ payload.role = tok.role)
  /\ []((ret.op = "users" /\ Invoked(ret))
          => /\ ret.payload.user_id = ret.token.user_id
             /\ ret.payload.username = ret.token.username
             /\ ret.payload.role = ret.token.role
             /\ ret.status = 200 <=> ret.token.role = "admin"
             /\ ret.status = 403 <=> ret.token.role # "admin")
  /\ [][users' # users
          => \A tok \in issued :
               LET before == verify_session(tok, store, now)
                   after == verify_session(tok, store', now')
               IN /\ tok \in issued'
                  /\ after = before
                  /\ GateDecision(after) = GateDecision(before)
     ]_vars
  /\ [][\A p \in Procs :
          (pc[p] = "idle" /\ pc'[p] \in {"login_session", "rf_session"})
            => req'[p].access.role = DirectoryRole(req'[p].access.user_id)
     ]_vars

C18_Witness ==
  /\ ret.op = "users"
  /\ ret.status = 403
  /\ ret.token.role = "user"
  /\ InDirectory(ret.token.user_id)
  /\ DirectoryRole(ret.token.user_id) = "admin"

----------------------------------------------------------------------------
(* Failed logins *)

\* the three ways the credentials of a login can fail
UserAbsent(username) == ~\E u \in users : u.username = username

NoPasswordHash(username) ==
  \E u \in users : u.username = username /\ u.password_hash = <<>>

WrongPassword(username, password) ==
  \E u \in users :
    /\ u.username = username
    /\ u.password_hash # <<>>
    /\ u.password_hash # hash_password(password)

\* what the client gets to see of a response
Visible(r) ==
  [status |-> r.status, error |-> r.error, access |-> r.access,
   refresh |-> r.refresh, user |-> r.user]

InvalidCredentials ==
  [status |-> 401, error |-> "Invalid username or password",
   access |-> NoToken, refresh |-> NoToken, user |-> NoUser]

\* C19: authenticate_user returns None without raising when the user is
\* absent, has no password hash, or the password does not verify, and login
\* returns the identical response (401, same error body, no token, no store
\* write) in all three cases, so the response does not reveal which case
\* occurred.
C19_LoginFailsUniformly ==
  /\ [](\A u \in Usernames, pw \in Passwords :
          (UserAbsent(u) \/ NoPasswordHash(u) \/ WrongPassword(u, pw))
            <=> authenticate_user(users, u, pw) = NoUser)
  /\ [](ret.op = "login"
          => IF \/ UserAbsent(ret.username)
                \/ NoPasswordHash(ret.username)
                \/ WrongPassword(ret.username, ret.password)
             THEN Visible(ret) = InvalidCredentials /\ ~ret.raised
             ELSE ret.status = 200 /\ ret.user.username = ret.username)
  /\ [][(ret'.op = "login" /\ ret'.status # 200)
          => /\ store' = store
             /\ issued' = issued
             /\ pc' = pc
     ]_vars

C19_Witness ==
  /\ ret.op = "login"
  /\ Visible(ret) = InvalidCredentials
  /\ NoPasswordHash(ret.username)
  /\ \E u \in users : u.password_hash # <<>>

----------------------------------------------------------------------------
(* Registration *)

\* C21: a registration that succeeds is followed by a successful
\* authentication with the same username and password, which returns the
\* row the registration created (same id, username and role), while every
\* other password is answered with no user; a registration is refused with
\* 409 only when the username or the email is in the directory already.
C21_RegisterThenAuthenticate ==
  ret.op = "register" =>
    /\ ret.status = 201 =>
         /\ ret.user \in users
         /\ ret.user.username = ret.username
         /\ authenticate_user(users, ret.username, ret.password) = ret.user
         /\ \A pw \in Passwords \ {ret.password} :
              authenticate_user(users, ret.username, pw) = NoUser
    /\ ret.status = 409 =>
         ExistingUser(users, ret.user.username, ret.user.email)

\* an admin registered with the second password while another account exists
C21_Witness ==
  /\ ret.op = "register"
  /\ ret.status = 201
  /\ ret.user.role = "admin"
  /\ ret.password = "wrong-pw"
  /\ Cardinality(users) = 2

\* the registration r carries a field the handler must refuse
BadRegistration(r) ==
  \/ r.username \in {None, ""}
  \/ r.user.email \in {None, ""}
  \/ r.password \in {None, ""}
  \/ Len(r.password) < 6
  \/ r.user.role \notin {"user", "admin"}

\* C22: a registration whose username, email or password is missing, whose
\* password is shorter than 6 characters or whose role is neither user nor
\* admin is answered 400 (it never reaches the service, and no other answer
\* is given to it), and a registration answered 400 leaves the directory
\* unchanged.
C22_RegisterRejectsBadBody ==
  /\ [](\A p \in Procs : req[p].op = "register" => ~BadRegistration(req[p]))
  /\ [](ret.op = "register" /\ ret.status # 400 => ~BadRegistration(ret))
  /\ [][ret'.op = "register" /\ ret'.status = 400
        => users' = users /\ nextId' = nextId /\ Quiet']_vars

\* a password of five characters is refused while the directory holds a user
C22_Witness ==
  /\ ret.op = "register"
  /\ ret.status = 400
  /\ ret.error = "Password must be at least 6 characters long"
  /\ users # {}

----------------------------------------------------------------------------
(* Token codec *)

\* decode_token applied to the wire form w as a client presents it
Decoded(w) == decode_token(ParseToken(w), now)

\* the claims a token must decode to
Carries(payload, type, user_id, username, role) ==
  /\ payload.type = type
  /\ payload.user_id = user_id
  /\ payload.username = username
  /\ payload.role = role

\* C23: a token decoded at the moment it was issued yields the claims it
\* was generated with: the type of the generator called (access for
\* generate_access_token, refresh for generate_refresh_token) and the
\* user_id, username and role passed to it, by login and by refresh.
C23_DecodeAfterIssue ==
  /\ ret.op = "login" /\ ret.status = 200 /\ ret.access.iat = now =>
       /\ Carries(Decoded(TokenString(ret.access)), "access", ret.user.id,
                  ret.user.username, ret.user.role)
       /\ Carries(Decoded(TokenString(ret.refresh)), "refresh", ret.user.id,
                  ret.user.username, ret.user.role)
  /\ ret.op = "refresh" /\ ret.status = 200 /\ ret.access.iat = now =>
       Carries(Decoded(TokenString(ret.access)), "access",
               ret.payload.user_id, ret.payload.username, ret.user.role)

\* an admin's tokens, issued and decoded after the clock has advanced
C23_Witness ==
  /\ ret.op = "login"
  /\ ret.status = 200
  /\ ret.access.iat = now
  /\ now > 0
  /\ ret.user.role = "admin"

\* the strings a client can present as a token
Presented ==
  {TokenString(tok) : tok \in Tokens} \cup Tampered \cup {<<"invalid.token">>}

\* the operations that decode the token of the request
Decoding == {"me", "logout", "refresh"}

\* C24: decode_token returns claims only for a string that is the wire form
\* of a token signed with the server secret whose expiry has not passed, and
\* then the claims of that token; an expired, malformed, unsigned or
\* tampered string is answered None.  No request gets past the decoding
\* with another token, and a token that fails it is answered 401, not by
\* an exception.
C24_DecodeOnlyValid ==
  /\ [](\A w \in Presented :
          LET tok == ParseToken(w)
              payload == Decoded(w)
          IN /\ payload # NoPayload =>
                  /\ TokenString(tok) = w
                  /\ tok \in issued
                  /\ tok.sig = JWT_SECRET_KEY
                  /\ tok.exp > now
                  /\ payload = Claims(tok)
             /\ (tok \notin issued \/ tok.exp <= now) => payload = NoPayload)
  /\ [][\A p \in Procs :
          pc[p] = "idle" /\ pc'[p] \in {"vs_exists", "rf_session"} =>
            /\ req'[p].token \in issued
            /\ req'[p].token.sig = JWT_SECRET_KEY
            /\ req'[p].token.exp > now]_vars
  /\ [](ret.op \in Decoding /\ ret.token \notin issued =>
          ret.status = 401 /\ ~ret.raised)

\* an unsigned copy of a token is refused while an issued token has expired
C24_Witness ==
  /\ ret.op = "me"
  /\ ret.status = 401
  /\ ret.header # <<>>
  /\ ret.header[Len(ret.header)] = ""
  /\ \E tok \in issued : tok.exp <= now

\* tok was signed by the server and its expiry has passed
Expired(tok) == tok.sig = JWT_SECRET_KEY /\ tok.exp <= now

DecodeRefusal(op) ==
  IF op = "refresh" THEN "Invalid refresh token" ELSE "Invalid or expired token"

----------------------------------------------------------------------------
(* The keys of the session store *)

KeySet(s) == {e.key : e \in s}

\* C26: a logout that succeeds leaves no key matching session:{user_id}:*,
\* no session_data:{user_id} key, and the key blacklist:{token[:16]} with
\* the value "1" and a time to live of SESSION_TTL; the keys it deletes are
\* the keys it listed.
C26_LogoutLeaves ==
  /\ [](ret.op = "logout" /\ ret.status = 200 =>
          /\ Keys(store, SessionPattern(ret.payload.user_id)) = {}
          /\ ~Exists(store, SessionDataKey(ret.payload.user_id))
          /\ [key |-> BlacklistKey(ret.token), val |-> <<"1">>,
              exp |-> now + SESSION_TTL] \in store)
  /\ [][\A p \in Procs :
          /\ pc[p] = "lo_keys" /\ pc'[p] \in {"lo_delete", "lo_data"} =>
               req'[p].keys = Keys(store, SessionPattern(req[p].payload.user_id))
          /\ pc[p] = "lo_delete" /\ now' = now =>
               /\ KeySet(store) \ KeySet(store') \subseteq req[p].keys
               /\ pc'[p] = "lo_data" =>
                    KeySet(store') \cap req[p].keys = {}]_vars

\* a logout has succeeded, after the clock advanced, while the session of
\* another user is in the store
C26_Witness ==
  /\ ret.op = "logout"
  /\ ret.status = 200
  /\ now > 0
  /\ \E u \in users :
       /\ u.id # ret.payload.user_id
       /\ Keys(store, SessionPattern(u.id)) # {}

\* the key families login, refresh and logout write
KeyFamilies == {"session", "session_data", "blacklist"}

\* C27: every entry of the store belongs to session:*, session_data:* or
\* blacklist:*, every entry written or rewritten by a step gets the expiry
\* now + SESSION_TTL, and so no entry is without an expiry or outlives
\* SESSION_TTL after its last write.
C27_EveryKeyExpires ==
  /\ [](\A e \in store :
          /\ e.key[1] \in KeyFamilies
          /\ e.exp > now
          /\ e.exp <= now + SESSION_TTL)
  /\ [][\A e \in store' : e \notin store => e.exp = now' + SESSION_TTL]_vars

\* entries of the three families are in the store, written at two times
C27_Witness ==
  /\ {e.key[1] : e \in store} = KeyFamilies
  /\ Cardinality({e.exp : e \in store}) = 2

\* the call logout_user(token, user_id) with the identity of the token
LogoutCall(tok) ==
  [NewReq("logout") EXCEPT !.token = tok, !.payload = Claims(tok)]

\* C29: logout_user(token, user_id) called a second time, at once or a
\* while later, leaves the keys the first call left; called again at the
\* moment a logout has succeeded it leaves the store as it is; and with the
\* store answering every call of logout_user returns success.
C29_LogoutIdempotent ==
  /\ \A tok \in {x \in issued : x.type = "access"} :
       \A t \in {now, now + TickStep} :
         LET once == Expire(Effect(store, LogoutCall(tok), now), t)
             twice == Effect(once, LogoutCall(tok), t)
         IN /\ KeySet(twice) = KeySet(once)
            /\ t = now => twice = once
  /\ ret.op = "logout" /\ ret.calls # <<>> =>
       /\ ret.status = 200
       /\ Effect(store, LogoutCall(ret.token), now) = store

\* a logout has succeeded and left keys of another user in the store
C29_Witness ==
  /\ ret.op = "logout"
  /\ ret.status = 200
  /\ Effect(store, LogoutCall(ret.token), now) = store
  /\ \E e \in store : e.key[1] = "session_data"

\* C30: a refresh writes exactly one new session record, the one of the new
\* access token, and leaves every entry the store held unchanged.
C30_RefreshAddsOneRecord ==
  [][\A p \in Procs :
       pc[p] = "rf_session" /\ pc'[p] = "idle" =>
         /\ store \subseteq store'
         /\ Cardinality(store') = Cardinality(store) + 1
         /\ KeySet(store') \ KeySet(store) =
              {SessionKey(req[p].payload.user_id, req[p].access)}]_vars

----------------------------------------------------------------------------
(* Session-store calls that are never answered *)

\* C28: every session-store call of login, refresh, logout and
\* verify_session is bounded by a finite timeout, so a worker handling a
\* request can always take its next step, even when the store never
\* answers the command it has sent.
C28_StoreCallsReturn == \A p \in Procs : pc[p] # "idle" => ENABLED StepOf(p)

----------------------------------------------------------------------------
(* The signing secret at startup *)

\* neither JWT_SECRET_KEY nor SECRET_KEY holds a secret
NoSecret ==
  /\ Falsy(Get(environ, "JWT_SECRET_KEY", None))
  /\ Falsy(Get(environ, "SECRET_KEY", None))

\* C31: a missing signing secret is detected when the token module is
\* loaded: in a process started without JWT_SECRET_KEY and SECRET_KEY the
\* import raises, no request is ever taken and no token is issued or
\* decoded; with either variable set the import succeeds with that secret.
C31_SecretRequiredAtStartup ==
  /\ [](NoSecret =>
          /\ \A p \in Procs : pc[p] \in {"import", "crashed"}
          /\ issued = {}
          /\ nops = 0
          /\ ret.op \in {"none", "import"})
  /\ [][\A p \in Procs :
          pc[p] = "import" /\ pc'[p] # "import" =>
            IF NoSecret
            THEN pc'[p] = "crashed" /\ ret'.raised
            ELSE pc'[p] = "idle" /\ LoadSecret(environ) = JWT_SECRET_KEY]_vars

\* the import has raised in a process whose JWT_SECRET_KEY is set but empty
C31_Witness ==
  /\ pc[1] = "crashed"
  /\ ret.raised
  /\ "JWT_SECRET_KEY" \in DOMAIN environ
  /\ "SECRET_KEY" \notin DOMAIN environ

----------------------------------------------------------------------------
(* The Authorization header *)

\* what follows the space of a header '<scheme> <token>' whose scheme is
\* bearer in some casing; nothing for every other header
TokenPart(h) ==
  IF Len(h) >= 2 /\ h[2] = " " /\ h[1] \in {"Bearer", "BEARER", "bearer"}
  THEN SubSeq(h, 3, Len(h))
  ELSE <<>>

\* C32: get_token_from_header returns the token exactly for a header
\* '<scheme> <token>' whose scheme is bearer compared case-insensitively,
\* and None for an absent header, a header without a space and every other
\* scheme; require_auth then answers 401 'Authentication required' in the
\* same step, and verify_session is reached only with a token.
C32_BearerExtraction ==
  /\ [](\A h \in Headers : get_token_from_header(h) = TokenPart(h))
  /\ [](\A p \in Procs :
          req[p].op \in RequireAuthRoutes /\ pc[p] \in {"vs_exists", "vs_keys"}
            => TokenPart(req[p].header) # <<>>)
  /\ [][ret'.op \in RequireAuthRoutes /\ TokenPart(ret'.header) = <<>> =>
          /\ nops' = nops + 1
          /\ ret'.status = 401
          /\ ret'.error = "Authentication required"
          /\ ~Invoked(ret')
          /\ ret'.token = NoToken]_vars

\* an access token sent under the Basic scheme is answered 401 on /users
C32_Witness ==
  /\ ret.op = "users"
  /\ ret.status = 401
  /\ Len(ret.header) > 3
  /\ ret.header[1] = "Basic"
  /\ ret.error = "Authentication required"

----------------------------------------------------------------------------
(* Revocation by logout *)

\* logout_user has run for user_id and no login of that user has begun
\* since, and no request is being handled
LoggedOut(user_id) ==
  /\ Quiet
  /\ user_id \in loggedOut
  /\ \A i \in DOMAIN live : live[i].user_id # user_id

\* C33: once logout has succeeded for a user, verify_session accepts no
\* access token carrying that user_id until the user logs in again; a
\* refresh with a refresh token issued before the logout yields no access
\* token that verify_session accepts.
C33_LoggedOutUntilLogin ==
  \A tok \in issued :
    tok.type = "access" /\ LoggedOut(tok.user_id) =>
      verify_session(tok, store, now) = NoPayload

\* C34: an access token issued to a user before a successful logout of that
\* user is never accepted by verify_session afterwards: not after the user
\* logs in again or refreshes, and not when another token was presented to
\* the logout.
C34_RevocationPermanent ==
  \A tok \in revoked.before : verify_session(tok, store, now) = NoPayload

\* the user has logged in again: a session exists, and a token issued before
\* the logout that was not the one presented, and has not expired, is
\* rejected
C34_Witness ==
  \E tok \in revoked.before \ revoked.presented :
    /\ tok.exp > now
    /\ HasSession(tok.user_id)
    /\ \E i \in DOMAIN live : live[i].user_id = tok.user_id

\* C35: with SESSION_TTL equal to the lifetime of an access token, the
\* blacklist entry a logout writes for its token expires no earlier than the
\* token, and the token presented to a successful logout is rejected by
\* verify_session at every later time.
C35_BlacklistOutlivesToken ==
  /\ [][\A p \in Procs :
          pc[p] = "lo_blacklist" /\ pc'[p] = "idle" =>
            \E e \in store' :
              /\ e.key = BlacklistKey(req[p].token)
              /\ e.exp = now + SESSION_TTL
              /\ e.exp >= req[p].token.exp]_vars
  /\ [](\A tok \in revoked.presented :
          verify_session(tok, store, now) = NoPayload)

\* the token presented to a logout has not expired and the user has a
\* session again
C35_Witness ==
  \E tok \in revoked.presented :
    /\ tok.exp > now
    /\ now > tok.iat
    /\ HasSession(tok.user_id)

\* the session records and the session data of user_id in store s
RecordsOf(s, user_id) ==
  {e \in s : \/ e.key \in Keys(s, SessionPattern(user_id))
              \/ e.key = SessionDataKey(user_id)}

\* C36: logout for user u deletes only keys that match session:{u}:* and
\* the key session_data:{u}; the session records and the session data of
\* every other user are unchanged by it, also when the decimal id of u is a
\* prefix of the other user's id (1 and 11).
C36_LogoutFrame ==
  [][\A p \in Procs :
       (pc[p] \in LogoutLabels /\ Moves(p)) =>
         LET u == req[p].payload.user_id IN
         /\ \A e \in store \ store' :
              \/ e.key \in Keys(store, SessionPattern(u))
              \/ e.key = SessionDataKey(u)
              \/ e.key = BlacklistKey(req[p].token)
         /\ \A row \in users :
              row.id # u => RecordsOf(store', row.id) = RecordsOf(store, row.id)]_vars

\* user 1 has logged out while user 11 has a session record and session
\* data, which are still there
C36_Witness ==
  /\ ret.op = "logout"
  /\ ret.status = 200
  /\ ret.payload.user_id = 1
  /\ Keys(store, SessionPattern(11)) # {}
  /\ Exists(store, SessionDataKey(11))
  /\ Keys(store, SessionPattern(1)) = {}
  /\ ~Exists(store, SessionDataKey(1))

\* C37: a login attempt that does not return 200 is answered 400 (body,
\* username or password missing) or 401 (unknown user or wrong password),
\* issues no token and writes no key to the session store.
C37_FailedLoginFrame ==
  /\ [][(ret'.op = "login" /\ ret'.status # 200) =>
          /\ ret'.status \in {400, 401}
          /\ ret'.access = NoToken
          /\ ret'.refresh = NoToken
          /\ issued' = issued
          /\ store' = store
          /\ \A p \in Procs : pc'[p] = "idle" => pc[p] = "idle"]_vars
  /\ [](ret.op = "login" =>
          /\ ret.status = 400 <=> (Falsy(ret.username) \/ Falsy(ret.password))
          /\ ret.status = 401 <=>
               /\ ~Falsy(ret.username)
               /\ ~Falsy(ret.password)
               /\ authenticate_user(users, ret.username, ret.password) = NoUser)

\* a login without a password for a user who has a session is answered 400
C37_Witness ==
  /\ ret.op = "login"
  /\ ret.status = 400
  /\ ret.password = None
  /\ \E u \in users : u.username = ret.username /\ HasSession(u.id)
  /\ issued # {}

\* worker p executes a statement of verify_session in this step: the decode
\* of a request that arrives, the blacklist lookup or the session lookup
VerifyStep(p) ==
  \/ /\ pc[p] = "idle"
     /\ nops' # nops
     /\ \/ pc'[p] = "vs_exists"
        \/ pc'[p] = "idle" /\ ret'.op \in {"me", "users", "public", "logout"}
  \/ pc[p] \in {"vs_exists", "vs_keys"} /\ pc'[p] # pc[p]

\* C38: verify_session is read-only on the session store: it creates no
\* key, deletes no key and extends no time to live: every entry of the
\* store, with its expiry, is the same after each of its statements, however
\* often a token is presented.
C38_VerifyReadOnly ==
  [][\A p \in Procs : VerifyStep(p) => store' = store]_vars

\* a token is accepted some time after its login, and its session record
\* still expires SESSION_TTL after that login
C38_Witness ==
  /\ ret.op = "me"
  /\ ret.status = 200
  /\ now > ret.token.iat
  /\ \E e \in store :
       /\ e.key = SessionKey(ret.token.user_id, ret.token)
       /\ e.exp = ret.token.iat + SESSION_TTL

\* C39: the logout endpoint revokes only the caller's own sessions: the
\* user_id passed to logout_user is the user_id claim of the token that
\* verify_session accepted for the request, the token blacklisted is that
\* same token, and no statement of the request removes a session record or
\* the session data of another user.
C39_LogoutOwnSessions ==
  /\ [][\A p \in Procs :
          (pc[p] = "vs_keys" /\ pc'[p] = "lo_keys") =>
            LET tok == ParseToken(TokenPart(HeaderOf(req[p]))) IN
            /\ req[p].token = tok
            /\ VerifyDecode(tok, tok.iat) = Claims(tok)
            /\ VerifySessionKeys(store, Claims(tok)) # {}
            /\ req'[p].token = tok
            /\ req'[p].payload.user_id = tok.user_id]_vars
  /\ [][\A p \in Procs :
          (pc[p] \in LogoutLabels /\ pc'[p] # "idle") =>
            /\ req'[p].token = req[p].token
            /\ req'[p].payload = req[p].payload]_vars
  /\ [][\A p \in Procs :
          (pc[p] \in LogoutLabels /\ Moves(p)) =>
            LET tok == ParseToken(TokenPart(HeaderOf(req[p]))) IN
            /\ \A e \in store \ store' :
                 e \in RecordsOf(store, tok.user_id)
                   \/ e.key = BlacklistKey(tok)
            /\ \A e \in store' \ store : e.key = BlacklistKey(tok)]_vars

\* a logout sent as 'BEARER <token>' has succeeded for its user while
\* the other user keeps a session
C39_Witness ==
  /\ ret.op = "logout"
  /\ ret.status = 200
  /\ ret.header[1] = "BEARER"
  /\ ~HasSession(ret.payload.user_id)
  /\ Blacklisted(ret.token)
  /\ \E row \in users : row.id # ret.payload.user_id /\ HasSession(row.id)

\* C40: if logout returns failure (500), the session store is left as it
\* was before the call: no session record of the user has been deleted, the
\* session data is intact and no blacklist entry has been written.  With
\* requests handled one at a time and the clock held, the session record
\* verify_session found for the request is in the store before the call and
\* nothing else removes it: it is still there when logout_user answers 500.
C40_FailedLogoutLeavesStore ==
  (/\ ret.op = "logout"
   /\ ret.status = 500
   /\ ret.error = "Failed to logout")
    => /\ HasSession(ret.payload.user_id)
       /\ Exists(store, SessionKey(ret.payload.user_id, ret.token))

====
